---------------------------- MODULE Spec2Model ----------------------------
(***************************************************************************)
(* awscli-local packaging automation: the Version Checker                  *)
(* (scripts/check_version.py), the Metadata Regenerator                    *)
(* (scripts/generate_srcinfo.py) and the Descriptor Updater                *)
(* (scripts/update_pkgbuild.py), run one after the other against the same  *)
(* PKGBUILD file.                                                          *)
(*                                                                         *)
(* Texts are TLA+ strings; the regular expressions of the scripts are      *)
(* modelled character by character (SubSeq on strings).  A Python value    *)
(* that may be None is a sequence of length 0 (None) or 1 (the value); a   *)
(* file that may be missing likewise.                                      *)
(***************************************************************************)
EXTENDS Integers, Sequences, FiniteSets, TLC

None == <<>>
Some(v) == <<v>>
IsNone(o) == o = <<>>
Val(o) == o[1]

(***************************************************************************)
(* Character-level helpers for the regular expressions.                    *)
(***************************************************************************)
Char(s, i) == SubSeq(s, i, i)

\* the literal lit occurs in s at index i
StartsAt(s, i, lit) ==
    /\ i >= 1
    /\ i + Len(lit) - 1 <= Len(s)
    /\ SubSeq(s, i, i + Len(lit) - 1) = lit

\* the least and the greatest element of a non-empty set of indices
Least(S) == CHOOSE j \in S : \A k \in S : j <= k
Greatest(S) == CHOOSE j \in S : \A k \in S : j >= k

\* index of the first occurrence of lit in s at or after i; 0 when there is none
Find(s, lit, i) ==
    LET at == {j \in i..(Len(s) - Len(lit) + 1) : StartsAt(s, j, lit)} IN
    IF at = {} THEN 0 ELSE Least(at)

\* Python's  lit in s
Contains(s, lit) == \E j \in 1..(Len(s) - Len(lit) + 1) : StartsAt(s, j, lit)

\* index of the last occurrence of lit in s that starts at or after lo and ends at or
\* before hi; 0 when there is none
FindLast(s, lit, lo, hi) ==
    LET at == {j \in lo..(hi - Len(lit) + 1) : StartsAt(s, j, lit)} IN
    IF at = {} THEN 0 ELSE Greatest(at)

\* greedy run  [^stop]*  from index i: the index of its last character (i - 1 when empty)
SpanEnd(s, i, stop) ==
    LET stops == {j \in i..Len(s) : Char(s, j) \in stop} IN
    IF stops = {} THEN Len(s) ELSE Least(stops) - 1

\* the regex class \s, and the one character '.' does not match
Whitespace == {" ", "\t", "\n", "\r", "\f"}
Newline == {"\n"}

NoMatch == [start |-> 0, end |-> 0, g1 |-> "", g2 |-> ""]

\* re.search(key + '(.+)'): leftmost place where key is followed by at least one
\* character other than a newline; group 1 runs to the end of that line
RECURSIVE SearchDotPlus(_, _, _)
SearchDotPlus(s, key, from) ==
    LET p == Find(s, key, from) IN
    IF p = 0 THEN NoMatch
    ELSE LET b == p + Len(key)
             e == SpanEnd(s, b, Newline)
         IN IF e >= b
            THEN [start |-> p, end |-> e, g1 |-> SubSeq(s, b, e), g2 |-> ""]
            ELSE SearchDotPlus(s, key, p + 1)

\* re.search(open + '([^stop]{min,})' + close): group 1 is the greedy run, which must
\* have at least min characters and be followed by close ("" or a character of stop)
RECURSIVE SearchDelimited(_, _, _, _, _, _)
SearchDelimited(s, open, stop, min, close, from) ==
    LET p == Find(s, open, from) IN
    IF p = 0 THEN NoMatch
    ELSE LET b == p + Len(open)
             e == SpanEnd(s, b, stop)
         IN IF e - b + 1 >= min /\ (close = "" \/ StartsAt(s, e + 1, close))
            THEN [start |-> p, end |-> e + Len(close), g1 |-> SubSeq(s, b, e), g2 |-> ""]
            ELSE SearchDelimited(s, open, stop, min, close, p + 1)

\* re.sub(open + '[^stop]{min,}' + close, repl, s): every match replaced by repl
RECURSIVE SubDelimited(_, _, _, _, _, _)
SubDelimited(s, open, stop, min, close, repl) ==
    LET m == SearchDelimited(s, open, stop, min, close, 1) IN
    IF m.start = 0 THEN s
    ELSE SubSeq(s, 1, m.start - 1) \o repl
         \o SubDelimited(SubSeq(s, m.end + 1, Len(s)), open, stop, min, close, repl)

\* re.sub(key + '.+', repl, s): every match, left to right, replaced by repl
RECURSIVE SubDotPlus(_, _, _)
SubDotPlus(s, key, repl) ==
    LET m == SearchDotPlus(s, key, 1) IN
    IF m.start = 0 THEN s
    ELSE SubSeq(s, 1, m.start - 1) \o repl
         \o SubDotPlus(SubSeq(s, m.end + 1, Len(s)), key, repl)

\* re.sub of a pattern without wildcards: every occurrence of lit replaced by repl
RECURSIVE SubLiteral(_, _, _)
SubLiteral(s, lit, repl) ==
    LET p == Find(s, lit, 1) IN
    IF p = 0 THEN s
    ELSE SubSeq(s, 1, p - 1) \o repl
         \o SubLiteral(SubSeq(s, p + Len(lit), Len(s)), lit, repl)

(***************************************************************************)
(* scripts/check_version.py                                                *)
(***************************************************************************)
\* get_current_version: file is the PKGBUILD (None when it does not exist)
get_current_version(file) ==
    IF IsNone(file) THEN None
    ELSE LET current_version_match == SearchDotPlus(Val(file), "pkgver=", 1) IN
         IF current_version_match.start = 0 THEN None
         ELSE Some(current_version_match.g1)

\* the console line get_current_version prints when it returns None
get_current_version_error(file) ==
    IF IsNone(file) THEN "ERROR: PKGBUILD file not found"
    ELSE "ERROR: Could not find current version in PKGBUILD"

\* needs_update with == for !=
needs_update_if_equal(current_version, latest_version) ==
    IF current_version = latest_version THEN "true" ELSE "false"

\* needs_update = current_version != latest_version, rendered "true" / "false"
needs_update(current_version, latest_version) ==
    IF current_version # latest_version THEN "true" ELSE "false"

\* the line set_github_output appends to the file and prints after "Output: "
OutputLine(key, value) == key \o "=" \o value

(***************************************************************************)
(* scripts/update_pkgbuild.py                                              *)
(***************************************************************************)
PypiPrefix == "https://files.pythonhosted.org/packages/"

\* download_url.split('packages/')[-1]
url_suffix(download_url) ==
    LET p == FindLast(download_url, "packages/", 1, Len(download_url)) IN
    IF p = 0 THEN download_url
    ELSE SubSeq(download_url, p + Len("packages/"), Len(download_url))

\* last index h in lo..hi where PypiPrefix occurs, ends before hi and is followed by a
\* character other than a double quote (so that [^")]+ can match); 0 when none
RECURSIVE LastPrefix(_, _, _)
LastPrefix(s, lo, hi) ==
    LET h == FindLast(s, PypiPrefix, lo, hi - 1) IN
    IF h = 0 THEN 0
    ELSE IF Char(s, h + Len(PypiPrefix)) # "\"" THEN h
    ELSE LastPrefix(s, lo, h + Len(PypiPrefix) - 1)

\* re.search(r'(source=\([^)]*https://files\.pythonhosted\.org/packages/)[^")]+([^)]*\))')
RECURSIVE SearchSource(_, _)
SearchSource(s, from) ==
    LET p == Find(s, "source=(", from) IN
    IF p = 0 THEN NoMatch
    ELSE LET b == p + Len("source=(")
             e == SpanEnd(s, b, {")"})
             h == IF e < Len(s) THEN LastPrefix(s, b, e) ELSE 0
         IN IF h = 0 THEN SearchSource(s, p + 1)
            ELSE LET u == h + Len(PypiPrefix)
                     v == SpanEnd(s, u, {"\"", ")"})
                 IN [start |-> p, end |-> e + 1,
                     g1 |-> SubSeq(s, p, u - 1), g2 |-> SubSeq(s, v + 1, e + 1)]

\* re.sub of the source pattern with  m.group(1) + url_suffix + m.group(2)
RECURSIVE SubSource(_, _)
SubSource(s, suffix) ==
    LET m == SearchSource(s, 1) IN
    IF m.start = 0 THEN s
    ELSE SubSeq(s, 1, m.start - 1) \o m.g1 \o suffix \o m.g2
         \o SubSource(SubSeq(s, m.end + 1, Len(s)), suffix)

\* UpdateVersion with  pkgver=[^\s]+  for  pkgver=.+
UpdateVersionValueOnly(content, version) ==
    SubDotPlus(SubDelimited(content, "pkgver=", Whitespace, 1, "", "pkgver=" \o version),
               "pkgrel=", "pkgrel=1")

\* "Update version" and "Reset pkgrel to 1"
UpdateVersion(content, version) ==
    SubDotPlus(SubDotPlus(content, "pkgver=", "pkgver=" \o version), "pkgrel=", "pkgrel=1")

\* "Update source URL"
UpdateSource(content, download_url) ==
    IF Contains(content, "source=(")
    THEN SubSource(content, url_suffix(download_url))
    ELSE content

ChecksumLine(sha256_hash) == "sha256sums=('" \o sha256_hash \o "')"

\* the source assignment followed by a new checksum line (the third branch)
InsertChecksum(content, sha256_hash) ==
    LET source_line == SearchDelimited(content, "source=(", {")"}, 1, ")", 1) IN
    IF source_line.start # 0
    THEN SubSeq(content, 1, source_line.end) \o "\n" \o ChecksumLine(sha256_hash)
         \o SubSeq(content, source_line.end + 1, Len(content))
    ELSE content

\* UpdateChecksum without the branch that replaces an existing checksum
UpdateChecksumNoReplace(content, sha256_hash) ==
    IF Contains(content, "sha256sums=('SKIP')")
    THEN SubLiteral(content, "sha256sums=('SKIP')", ChecksumLine(sha256_hash))
    ELSE InsertChecksum(content, sha256_hash)

\* "Update sha256sum": the three branches
UpdateChecksum(content, sha256_hash) ==
    IF Contains(content, "sha256sums=('SKIP')")
    THEN SubLiteral(content, "sha256sums=('SKIP')", ChecksumLine(sha256_hash))
    ELSE IF Contains(content, "sha256sums=(")
    THEN SubDelimited(content, "sha256sums=('", {"'"}, 0, "')", ChecksumLine(sha256_hash))
    ELSE InsertChecksum(content, sha256_hash)

\* the text update_pkgbuild writes back
Rewrite(content, version, package_info) ==
    UpdateChecksum(UpdateSource(UpdateVersion(content, version), package_info.url),
                   package_info.sha256)

(***************************************************************************)
(* scripts/generate_srcinfo.py                                             *)
(***************************************************************************)
Quotes == {"'", "\""}

\* re.findall(r"'([^']+)'|\"([^\"]+)\"|([^\s'\"]+)", array_content), each match
\* reduced to its non-empty group
RECURSIVE FindItems(_, _)
FindItems(array_content, i) ==
    IF i > Len(array_content) THEN <<>>
    ELSE LET c == Char(array_content, i) IN
         IF c \in Quotes
         THEN LET e == SpanEnd(array_content, i + 1, {c}) IN
              IF e >= i + 1 /\ StartsAt(array_content, e + 1, c)
              THEN <<SubSeq(array_content, i + 1, e)>> \o FindItems(array_content, e + 2)
              ELSE FindItems(array_content, i + 1)
         ELSE IF c \in Whitespace THEN FindItems(array_content, i + 1)
         ELSE LET e == SpanEnd(array_content, i, Whitespace \cup Quotes) IN
              <<SubSeq(array_content, i, e)>> \o FindItems(array_content, e + 1)

\* extract_array(key=\(([^)]+)\))
extract_array(content, key) ==
    LET match == SearchDelimited(content, key \o "=(", {")"}, 1, ")", 1) IN
    IF match.start # 0 THEN FindItems(match.g1, 1) ELSE <<>>

\* extract_field(key=([^\s]+)), required
extract_field(content, key) ==
    LET match == SearchDelimited(content, key \o "=", Whitespace, 1, "", 1) IN
    IF match.start # 0 THEN Some(match.g1) ELSE None

\* extract_field(key="([^"]+)"), required
extract_quoted_field(content, key) ==
    LET match == SearchDelimited(content, key \o "=\"", {"\""}, 1, "\"", 1) IN
    IF match.start # 0 THEN Some(match.g1) ELSE None

\* DefaultIfEmpty without the default
NoDefault(items, default) == items

\* "Set defaults": an empty list becomes the single-element list of the default
DefaultIfEmpty(items, default) == IF items = <<>> THEN <<default>> ELSE items

\* parse_pkgbuild: None when the file is missing or a required field is
parse_pkgbuild(file) ==
    IF IsNone(file) THEN None
    ELSE LET content == Val(file)
             pkgname == extract_field(content, "pkgname")
             pkgver == extract_field(content, "pkgver")
             pkgrel == extract_field(content, "pkgrel")
             pkgdesc == extract_quoted_field(content, "pkgdesc")
             url == extract_quoted_field(content, "url")
             arch == extract_array(content, "arch")
             license_arr == extract_array(content, "license")
         IN IF \E f \in {pkgname, pkgver, pkgrel, pkgdesc, url} : IsNone(f) THEN None
            ELSE Some([pkgname |-> Val(pkgname), pkgver |-> Val(pkgver),
                       pkgrel |-> Val(pkgrel), pkgdesc |-> Val(pkgdesc), url |-> Val(url),
                       arch |-> DefaultIfEmpty(arch, "any"),
                       license |-> DefaultIfEmpty(license_arr, "unknown"),
                       depends |-> extract_array(content, "depends"),
                       makedepends |-> extract_array(content, "makedepends")])

\* the lines  "\t<key> = <item>"  for the items of an array
ArrayLines(key, items) == [i \in 1..Len(items) |-> "\t" \o key \o " = " \o items[i]]

\* '\n'.join(lines) + '\n'
RECURSIVE JoinLines(_)
JoinLines(lines) ==
    IF lines = <<>> THEN "" ELSE Head(lines) \o "\n" \o JoinLines(Tail(lines))

\* generate_srcinfo: the lines of .SRCINFO
srcinfo_lines(pkg_info) ==
    << "pkgbase = " \o pkg_info.pkgname,
       "\tpkgdesc = " \o pkg_info.pkgdesc,
       "\tpkgver = " \o pkg_info.pkgver,
       "\tpkgrel = " \o pkg_info.pkgrel,
       "\turl = " \o pkg_info.url >>
    \o ArrayLines("arch", pkg_info.arch)
    \o ArrayLines("license", pkg_info.license)
    \o ArrayLines("depends", pkg_info.depends)
    \o ArrayLines("makedepends", pkg_info.makedepends)
    \o << "", "pkgname = " \o pkg_info.pkgname >>

generate_srcinfo(pkg_info) == JoinLines(srcinfo_lines(pkg_info))

(***************************************************************************)
(* The package index and the artifacts it serves.                          *)
(***************************************************************************)
MaxRuns == 2     \* script invocations in one behaviour
MaxItems == 2    \* elements in an array of the initial descriptor

TargetVersions == {"1.1.0", "2.0.0"}     \* the version argument of the Updater
LatestVersions == {"1.0.0", "1.1.0"}     \* info.version served by the index

\* the content of the source archive of a release, and a content that is not it
Artifact(version) == "sdist-" \o version
Tampered == "tampered"

\* hashlib.sha256(content).hexdigest(): distinct contents have distinct digests
Sha256Hex(content) ==
    CASE content = "sdist-1.1.0" -> "0a1b"
      [] content = "sdist-2.0.0" -> "9f8e"
      [] OTHER -> "dead"

\* the path of the source archive below packages/, and its download URL
SdistPath(version) == "ab/cd/awscli-local-" \o version \o ".tar.gz"
SdistUrl(version) == PypiPrefix \o SdistPath(version)
WheelInfo(version) ==
    [packagetype |-> "bdist_wheel",
     url |-> PypiPrefix \o "ef/01/awscli_local-" \o version \o "-py3-none-any.whl",
     digests |-> [sha256 |-> "77aa"]]
SdistInfo(version) ==
    [packagetype |-> "sdist", url |-> SdistUrl(version),
     digests |-> [sha256 |-> Sha256Hex(Artifact(version))]]

\* what GET /pypi/awscli-local/<version>/json may give: a RequestException (None) or
\* the 'urls' list of the record, with or without a source distribution
IndexResponses(version) ==
    {None, Some(<<WheelInfo(version)>>), Some(<<WheelInfo(version), SdistInfo(version)>>)}

\* get_package_info, given the response: the first sdist of 'urls', or None
get_package_info(response) ==
    IF IsNone(response) THEN None
    ELSE LET files == Val(response)
             sdists == {i \in 1..Len(files) : files[i].packagetype = "sdist"}
         IN IF sdists = {} THEN None
            ELSE LET source_file == files[Least(sdists)] IN
                 Some([url |-> source_file.url, sha256 |-> source_file.digests.sha256])

\* verify_checksum, given the download (None: RequestException)
verify_checksum(response, expected_sha256) ==
    IF IsNone(response) THEN FALSE
    ELSE expected_sha256 = Sha256Hex(Val(response))

(***************************************************************************)
(* The descriptors the scripts start from.  A descriptor is rendered from  *)
(* what it declares (decl), so that what the scripts extract can be        *)
(* compared with what was declared.                                        *)
(***************************************************************************)
DeclaredVersion == "1.0.0"
OldSuffix == "aa/bb/awscli-local-1.0.0.tar.gz"
OldChecksum == "0123"

VerStyles == {"none", "plain", "comment", "shadowed"}
SourceStyles == {"none", "dq", "sq", "named"}
SumStyles == {"none", "skip", "sq", "dq"}
ArrayKeys == {"arch", "license", "depends", "makedepends"}
Absent == 0 - 1
ArraySizes == {Absent} \cup (0..MaxItems)

ItemNames ==
    [arch |-> <<"any", "x86_64">>, license |-> <<"Apache-2.0", "MIT">>,
     depends |-> <<"python", "localstack">>, makedepends |-> <<"python-setuptools", "git">>]

\* the i-th element declared under key
Item(key, i) ==
    IF i <= Len(ItemNames[key]) THEN ItemNames[key][i] ELSE key \o "-" \o ToString(i)

\* the elements an array of size n declares (none when absent or empty)
Declared(key, n) == [i \in 1..n |-> Item(key, i)]

\* the i-th element as written: single-quoted, double-quoted or bare in turn
Written(key, i) ==
    CASE i % 3 = 1 -> "'" \o Item(key, i) \o "'"
      [] i % 3 = 2 -> "\"" \o Item(key, i) \o "\""
      [] OTHER -> Item(key, i)

RECURSIVE WrittenItems(_, _, _)
WrittenItems(key, i, n) ==
    IF i > n THEN ""
    ELSE Written(key, i) \o (IF i < n THEN " " ELSE "") \o WrittenItems(key, i + 1, n)

ArrayLine(key, n) ==
    IF n = Absent THEN "" ELSE key \o "=(" \o WrittenItems(key, 1, n) \o ")\n"

VerLines(style) ==
    CASE style = "none" -> ""
      [] style = "plain" -> "pkgver=" \o DeclaredVersion \o "\n"
      [] style = "comment" -> "pkgver=" \o DeclaredVersion \o " # bump\n"
      [] style = "shadowed" -> "_pkgver=0.9\npkgver=" \o DeclaredVersion \o "\n"

\* the source assignment up to and including the index prefix, and from the closing
\* quote of the URL on
SourceHead(style) ==
    CASE style = "dq" -> "source=(\"" \o PypiPrefix
      [] style = "sq" -> "source=('" \o PypiPrefix
      [] style = "named" -> "source=(\"$pkgname-$pkgver.tar.gz::" \o PypiPrefix
      [] OTHER -> ""
SourceTail(style) ==
    CASE style = "dq" -> "\")"
      [] style = "sq" -> "')"
      [] style = "named" -> "\" \"fix.patch\")"
      [] OTHER -> ""
SourceLine(style) ==
    IF style = "none" THEN ""
    ELSE SourceHead(style) \o OldSuffix \o SourceTail(style) \o "\n"

SumLine(style) ==
    CASE style = "none" -> ""
      [] style = "skip" -> "sha256sums=('SKIP')\n"
      [] style = "sq" -> "sha256sums=('" \o OldChecksum \o "')\n"
      [] style = "dq" -> "sha256sums=(\"" \o OldChecksum \o "\")\n"

Render(d) ==
    "pkgname=awscli-local\n" \o VerLines(d.ver) \o "pkgrel=2\n"
    \o "pkgdesc=\"LocalStack CLI\"\nurl=\"https://localstack.cloud\"\n"
    \o ArrayLine("arch", d.arch) \o ArrayLine("license", d.license)
    \o (IF d.makefirst
        THEN ArrayLine("makedepends", d.makedepends) \o ArrayLine("depends", d.depends)
        ELSE ArrayLine("depends", d.depends) \o ArrayLine("makedepends", d.makedepends))
    \o SourceLine(d.source) \o SumLine(d.sums)
    \o "package() {\n  true\n}\n"

Usual ==
    [ver |-> "plain", arch |-> 1, license |-> 1, depends |-> 2, makedepends |-> 1,
     makefirst |-> FALSE, source |-> "dq", sums |-> "sq"]

\* the usual descriptor, varied in its architecture and license arrays, or in its
\* dependency arrays, or in its version, source and checksum lines
\* (Init also starts without a PKGBUILD file, once, under the usual declaration)
Decls ==
    {[Usual EXCEPT !.arch = a, !.license = l] : a \in ArraySizes, l \in ArraySizes}
    \cup {[Usual EXCEPT !.depends = a, !.makedepends = m, !.makefirst = f] :
            a \in ArraySizes, m \in ArraySizes, f \in BOOLEAN}
    \cup {[Usual EXCEPT !.ver = v, !.source = u, !.sums = c] :
            v \in VerStyles, u \in SourceStyles, c \in SumStyles}

(***************************************************************************)
(* State.  The scripts are separate processes run one at a time.           *)
(***************************************************************************)
VARIABLES
    pkgbuild,         \* the file PKGBUILD: None (missing) or Some(text)
    srcinfo,          \* the file .SRCINFO: None (not written yet) or Some(text)
    environ,          \* os.environ.get('GITHUB_OUTPUT'): None (unset) or Some(path)
    github_output,    \* the file at that path: None (does not exist) or Some(text)
    console,          \* the lines the running script has printed
    script,           \* the script that runs or ran last; "none" before the first run
    pc,               \* where the running script is; "idle" before the first run
    exit_code,        \* the exit status of the script that ran last
    args,             \* the Updater's arguments
    current_version,  \* check_version.main
    latest_version,   \* check_version.main
    package_info,     \* update_pkgbuild.main
    download,         \* verify_checksum: the downloaded content, None before and on failure
    pkg_info,         \* generate_srcinfo.main
    runs,             \* scripts started so far
    decl,             \* what the initial descriptor declares
    start_pkgbuild,   \* PKGBUILD as the running script found it
    last_update       \* the last successful run of the Updater: None or Some(record)

files == <<pkgbuild, srcinfo, environ, github_output>>
locals == <<args, current_version, latest_version, package_info, download, pkg_info>>
history == <<runs, decl, start_pkgbuild, last_update>>
vars == <<pkgbuild, srcinfo, environ, github_output, console, script, pc, exit_code, args,
          current_version, latest_version, package_info, download, pkg_info,
          runs, decl, start_pkgbuild, last_update>>

NoArgs == [version |-> "", verify |-> TRUE]

Init ==
    /\ decl \in Decls
    /\ pkgbuild \in {Some(Render(decl))} \cup (IF decl = Usual THEN {None} ELSE {})
    /\ srcinfo = None
    /\ environ = None
    /\ github_output = None
    /\ console = <<>>
    /\ script = "none"
    /\ pc = "idle"
    /\ exit_code = 0
    /\ args = NoArgs
    /\ current_version = None
    /\ latest_version = None
    /\ package_info = None
    /\ download = None
    /\ pkg_info = None
    /\ runs = 0
    /\ start_pkgbuild = pkgbuild
    /\ last_update = None

\* a new process: nothing printed, no locals
Start(name, entry) ==
    /\ pc \in {"idle", "exited"}
    /\ runs < MaxRuns
    /\ runs' = runs + 1
    /\ script' = name
    /\ pc' = entry
    /\ console' = <<>>
    /\ exit_code' = 0
    /\ current_version' = None
    /\ latest_version' = None
    /\ package_info' = None
    /\ download' = None
    /\ pkg_info' = None
    /\ start_pkgbuild' = pkgbuild
    /\ UNCHANGED <<pkgbuild, srcinfo, decl, last_update>>

\* sys.exit(1) after printing line
Fail(line) ==
    /\ console' = Append(console, line)
    /\ pc' = "exited"
    /\ exit_code' = 1

\* falling off the end of main
Finish ==
    /\ pc' = "exited"
    /\ exit_code' = 0

(***************************************************************************)
(* check_version.main                                                      *)
(***************************************************************************)
\* the runner starts the Checker with GITHUB_OUTPUT unset or naming a file that does
\* not exist yet
StartChecker ==
    /\ Start("check_version", "check_current")
    /\ environ' \in {None, Some("/tmp/github_output")}
    /\ github_output' = None
    /\ args' = NoArgs

\* current_version = get_current_version(); if not current_version: sys.exit(1)
CheckCurrent ==
    /\ pc = "check_current"
    /\ current_version' = get_current_version(pkgbuild)
    /\ IF IsNone(current_version')
       THEN Fail(get_current_version_error(pkgbuild))
       ELSE /\ pc' = "check_latest"
            /\ UNCHANGED <<console, exit_code>>
    /\ UNCHANGED <<files, script, args, latest_version, package_info, download, pkg_info,
                   history>>

\* FileAfterOutput without the test of the environment variable
FileAfterOutputAlways(path, file, key, value) ==
    Some((IF IsNone(file) THEN "" ELSE Val(file)) \o OutputLine(key, value) \o "\n")

\* set_github_output(key, value): the file afterwards (open(path, 'a') creates the file
\* when it does not exist) and the console afterwards
FileAfterOutput(path, file, key, value) ==
    IF IsNone(path) THEN file
    ELSE Some((IF IsNone(file) THEN "" ELSE Val(file)) \o OutputLine(key, value) \o "\n")
ConsoleAfterOutput(out, key, value) == Append(out, "Output: " \o OutputLine(key, value))

\* latest_version = get_latest_version(); if not latest_version: sys.exit(1);
\* then the comparison and the three set_github_output calls
CheckLatest ==
    /\ pc = "check_latest"
    /\ \E response \in {None} \cup {Some(v) : v \in LatestVersions} :
        /\ latest_version' = response
        /\ IF IsNone(response)
           THEN /\ Fail("ERROR: Failed to fetch version from PyPI")
                /\ UNCHANGED github_output
           ELSE LET path == environ
                    cur == Val(current_version)
                    lat == Val(response)
                    upd == needs_update(cur, lat)
                    printed == console \o <<"Current version: " \o cur,
                                            "Latest version: " \o lat,
                                            "Needs update: " \o upd>>
                IN /\ github_output' =
                        FileAfterOutput(path,
                            FileAfterOutput(path,
                                FileAfterOutput(path, github_output, "current_version", cur),
                                "latest_version", lat),
                            "needs_update", upd)
                   /\ console' =
                        ConsoleAfterOutput(
                            ConsoleAfterOutput(
                                ConsoleAfterOutput(printed, "current_version", cur),
                                "latest_version", lat),
                            "needs_update", upd)
                   /\ Finish
    /\ UNCHANGED <<pkgbuild, srcinfo, environ, script, args, current_version, package_info,
                   download, pkg_info, history>>

(***************************************************************************)
(* update_pkgbuild.main                                                    *)
(***************************************************************************)
\* python update_pkgbuild.py <version> [--no-verify]
StartUpdater ==
    /\ Start("update_pkgbuild", "update_fetch")
    /\ \E version \in TargetVersions, verify \in BOOLEAN :
        args' = [version |-> version, verify |-> verify]
    /\ UNCHANGED <<environ, github_output>>

\* package_info = get_package_info(args.version); if not package_info: sys.exit(1)
UpdateFetch ==
    /\ pc = "update_fetch"
    /\ \E response \in IndexResponses(args.version) :
        /\ package_info' = get_package_info(response)
        /\ IF IsNone(package_info')
           THEN Fail(IF IsNone(response)
                     THEN "ERROR: Failed to get package info from PyPI"
                     ELSE "ERROR: No source distribution found on PyPI")
           ELSE /\ pc' = "update_verify"
                /\ console' = console \o <<"Download URL: " \o Val(package_info').url,
                                           "SHA256: " \o Val(package_info').sha256>>
                /\ UNCHANGED exit_code
    /\ UNCHANGED <<files, script, args, current_version, latest_version, download, pkg_info,
                   history>>

\* PassesVerify without the comparison of the digests
PassesVerifyAnyContent(verify, response, info) ==
    verify => ~IsNone(response)

\* whether main goes on to update_pkgbuild after the verification stage
PassesVerify(verify, response, info) ==
    verify => verify_checksum(response, info.sha256)

\* if args.verify: if not verify_checksum(url, sha256): sys.exit(1)
UpdateVerify ==
    /\ pc = "update_verify"
    /\ \E response \in IF args.verify
                        THEN {None, Some(Artifact(args.version)), Some(Tampered)}
                        ELSE {None} :
        /\ download' = response
        /\ IF PassesVerify(args.verify, response, Val(package_info))
           THEN /\ pc' = "update_write"
                /\ UNCHANGED <<console, exit_code>>
           ELSE Fail(IF IsNone(response)
                     THEN "ERROR: Failed to download package for verification"
                     ELSE "ERROR: Checksum mismatch!")
    /\ UNCHANGED <<files, script, args, current_version, latest_version, package_info,
                   pkg_info, history>>

\* the run in progress has the target version and the record of the last successful one
SameAsLast ==
    /\ ~IsNone(last_update)
    /\ Val(last_update).version = args.version
    /\ Val(last_update).package_info = Val(package_info)

\* if not update_pkgbuild(args.version, package_info): sys.exit(1)
UpdateWrite ==
    /\ pc = "update_write"
    /\ IF IsNone(pkgbuild)
       THEN /\ Fail("ERROR: PKGBUILD file not found")
            /\ UNCHANGED <<pkgbuild, last_update>>
       ELSE \E writable \in BOOLEAN :
            IF writable
            THEN /\ pkgbuild' = Some(Rewrite(Val(pkgbuild), args.version, Val(package_info)))
                 /\ last_update' = Some([version |-> args.version,
                                         package_info |-> Val(package_info),
                                         before |-> Val(pkgbuild),
                                         repeat |-> SameAsLast])
                 /\ Finish
                 /\ UNCHANGED console
            ELSE /\ Fail("ERROR: Failed to write PKGBUILD")
                 /\ UNCHANGED <<pkgbuild, last_update>>
    /\ UNCHANGED <<srcinfo, environ, github_output, script, locals, runs, decl,
                   start_pkgbuild>>

(***************************************************************************)
(* generate_srcinfo.main                                                   *)
(***************************************************************************)
StartRegen ==
    /\ Start("generate_srcinfo", "regen_parse")
    /\ args' = NoArgs
    /\ UNCHANGED <<environ, github_output>>

\* pkg_info = parse_pkgbuild(); if not pkg_info: sys.exit(1)
RegenParse ==
    /\ pc = "regen_parse"
    /\ pkg_info' = parse_pkgbuild(pkgbuild)
    /\ IF IsNone(pkg_info')
       THEN Fail(IF IsNone(pkgbuild)
                 THEN "ERROR: PKGBUILD file not found"
                 ELSE "ERROR: Could not find required field")
       ELSE /\ pc' = "regen_write"
            /\ UNCHANGED <<console, exit_code>>
    /\ UNCHANGED <<files, script, args, current_version, latest_version, package_info,
                   download, history>>

\* srcinfo_content = generate_srcinfo(pkg_info); write .SRCINFO, sys.exit(1) on IOError
RegenWrite ==
    /\ pc = "regen_write"
    /\ \E writable \in BOOLEAN :
        IF writable
        THEN /\ srcinfo' = Some(generate_srcinfo(Val(pkg_info)))
             /\ Finish
             /\ UNCHANGED console
        ELSE /\ Fail("ERROR: Failed to write .SRCINFO")
             /\ UNCHANGED srcinfo
    /\ UNCHANGED <<pkgbuild, environ, github_output, script, locals, history>>

Next ==
    \/ StartChecker \/ CheckCurrent \/ CheckLatest
    \/ StartUpdater \/ UpdateFetch \/ UpdateVerify \/ UpdateWrite
    \/ StartRegen \/ RegenParse \/ RegenWrite

Spec == Init /\ [][Next]_vars

(***************************************************************************)
(* Properties.                                                             *)
(***************************************************************************)
Exited(name) == script = name /\ pc = "exited"
Succeeded(name) == Exited(name) /\ exit_code = 0

\* the running script found the descriptor as it was rendered from decl
FromDeclared == start_pkgbuild = Some(Render(decl))

\* the record fetch failed or the record has no sdist artifact
FetchFailed == IsNone(package_info)

\* verification was on and the download failed or its digest is not the reported one
VerifyFailed ==
    /\ ~IsNone(package_info)
    /\ args.verify
    /\ \/ IsNone(download)
       \/ Sha256Hex(Val(download)) # Val(package_info).sha256

\* C1: when the Updater's record fetch fails, the record has no sdist, the download
\* fails or (verification on) the computed digest differs from the reported one, the
\* Updater exits 1 with PKGBUILD unchanged; PKGBUILD differs from what the Updater
\* found only when every earlier stage has succeeded.
UpdaterFailsClosed ==
    /\ Exited("update_pkgbuild") /\ (FetchFailed \/ VerifyFailed)
        => exit_code = 1 /\ pkgbuild = start_pkgbuild
    /\ script = "update_pkgbuild" /\ pkgbuild # start_pkgbuild
        => ~FetchFailed /\ ~VerifyFailed /\ Succeeded("update_pkgbuild")

\* C1 witness: the Updater has exited after downloading content whose digest is not
\* the reported one
DigestMismatchSeen ==
    /\ Exited("update_pkgbuild")
    /\ args.version = "2.0.0"
    /\ args.verify
    /\ download = Some(Tampered)
    /\ exit_code = 1
    /\ ~IsNone(pkgbuild)

\* C2: a successful Updater run with the target version and the record of the last
\* successful run leaves PKGBUILD as that run left it, with pkgrel=1.
UpdaterIdempotent ==
    [][(pc = "update_write" /\ SameAsLast /\ pc' = "exited" /\ exit_code' = 0)
        => /\ pkgbuild' = pkgbuild
           /\ extract_field(Val(pkgbuild'), "pkgrel") = Some("1")]_vars

\* C2 witness: a second successful run with the same version and record, on a
\* descriptor that had a SKIP placeholder and a release counter of 2
SecondRunDone ==
    /\ Succeeded("update_pkgbuild")
    /\ ~IsNone(last_update)
    /\ Val(last_update).repeat
    /\ decl.sums = "skip"

\* the number of places where lit occurs in s
Occurrences(s, lit) == Cardinality({j \in 1..Len(s) : StartsAt(s, j, lit)})

\* the first source assignment of a descriptor, from  source=(  to the closing parenthesis
SourceAssignment(content) ==
    LET p == Find(content, "source=(", 1) IN
    IF p = 0 THEN "" ELSE SubSeq(content, p, Find(content, ")", p))

\* the lines of a text that ends every line with a newline
RECURSIVE SplitLines(_)
SplitLines(text) ==
    IF text = "" THEN <<>>
    ELSE LET e == SpanEnd(text, 1, Newline) IN
         <<SubSeq(text, 1, e)>> \o SplitLines(SubSeq(text, e + 2, Len(text)))

\* the lines of the derived file under key
LinesUnder(text, key) ==
    LET Under(line) == StartsAt(line, 1, "\t" \o key \o " = ") IN
    SelectSeq(SplitLines(text), Under)

\* one line  key = element  per element declared, in order
ExpectedLines(key, n) == [i \in 1..n |-> "\t" \o key \o " = " \o Item(key, i)]

\* the "Output: " lines of the console
OutputsPrinted ==
    LET IsOutput(line) == StartsAt(line, 1, "Output: ") IN SelectSeq(console, IsOutput)

\* the three outputs for current version cur, latest version lat and answer upd
ThreeOutputs(cur, lat, upd) ==
    <<"current_version=" \o cur, "latest_version=" \o lat, "needs_update=" \o upd>>

\* the three outputs are on the console and, when GITHUB_OUTPUT is set, in the file
Emitted(cur, lat, upd) ==
    /\ OutputsPrinted = [i \in 1..3 |-> "Output: " \o ThreeOutputs(cur, lat, upd)[i]]
    /\ IF IsNone(environ) THEN IsNone(github_output)
       ELSE github_output = Some(JoinLines(ThreeOutputs(cur, lat, upd)))

\* C3: after a successful Updater run on a descriptor with a source assignment and a
\* SKIP placeholder, an existing checksum or no checksum, it has exactly one checksum
\* assignment, its value is the digest the index reports for the target version, and
\* if there was none the new one directly follows the source assignment.
OneCorrectChecksum ==
    Succeeded("update_pkgbuild") /\ FromDeclared /\ decl.source # "none"
        => LET content == Val(pkgbuild)
               reported == SdistInfo(args.version).digests.sha256
           IN /\ Occurrences(content, "sha256sums=(") = 1
              /\ extract_array(content, "sha256sums") = <<reported>>
              /\ decl.sums = "none"
                    => Contains(content, SourceAssignment(content) \o "\nsha256sums=(")

\* C4: when the Checker has read C and fetched L it exits 0 having emitted
\* current_version=C, latest_version=L and needs_update, "true" iff C and L differ.
CheckerReports ==
    Exited("check_version") /\ ~IsNone(current_version) /\ ~IsNone(latest_version)
        => /\ exit_code = 0
           /\ Emitted(Val(current_version), Val(latest_version),
                      IF Val(current_version) = Val(latest_version) THEN "false" ELSE "true")

\* C4 witness: the Checker has exited with equal versions and a file to write to
CheckerSawEqual ==
    /\ Exited("check_version")
    /\ ~IsNone(latest_version)
    /\ current_version = latest_version
    /\ ~IsNone(environ)

\* C5: on a descriptor with a pkgver=X assignment the Checker's current version is X.
CheckerReadsDeclared ==
    script = "check_version" /\ pc # "check_current" /\ FromDeclared /\ decl.ver # "none"
        => current_version = Some(DeclaredVersion)

\* C6: the Checker exits 1 exactly when PKGBUILD is missing, has no version field or
\* the index request fails, and then no output is emitted; otherwise it exits 0 with
\* the three outputs on the console, and in the file only if GITHUB_OUTPUT is set.
CheckerExitStatus ==
    Exited("check_version")
        => /\ exit_code \in {0, 1}
           /\ exit_code = 1
                <=> IsNone(pkgbuild) \/ decl.ver = "none" \/ IsNone(latest_version)
           /\ exit_code = 1 => OutputsPrinted = <<>> /\ IsNone(github_output)
           /\ exit_code = 0
                => /\ Len(OutputsPrinted) = 3
                   /\ IsNone(environ) => IsNone(github_output)
                   /\ ~IsNone(environ) => Len(SplitLines(Val(github_output))) = 3

\* C6 witness: the Checker has exited 0 with GITHUB_OUTPUT unset
CheckerDoneUnset == Succeeded("check_version") /\ IsNone(environ)

\* C7: the derived file lists, under each array key, one line per element declared
\* under that key in the descriptor, in order, and nothing else (arch and license,
\* which have defaults, are compared when declared non-empty).
RegenListsDeclared ==
    Succeeded("generate_srcinfo") /\ FromDeclared
        => \A key \in ArrayKeys :
             key \in {"depends", "makedepends"} \/ decl[key] > 0
                => LinesUnder(Val(srcinfo), key) = ExpectedLines(key, decl[key])

\* C8: an empty or absent arch array gives exactly the line  arch = any, an empty or
\* absent license array exactly  license = unknown; a non-empty array gets no default.
RegenDefaults ==
    Succeeded("generate_srcinfo")
        => /\ LinesUnder(Val(srcinfo), "arch") =
                IF decl.arch > 0 THEN ExpectedLines("arch", decl.arch) ELSE <<"\tarch = any">>
           /\ LinesUnder(Val(srcinfo), "license") =
                IF decl.license > 0 THEN ExpectedLines("license", decl.license)
                ELSE <<"\tlicense = unknown">>

\* C8 witness: the derived file was written for a descriptor with arch=() and no
\* license array
RegenDefaulted == Succeeded("generate_srcinfo") /\ decl.arch = 0 /\ decl.license = Absent

\* C9: the Updater replaces, in the source assignment, only what follows the index
\* prefix up to the closing quote, by what follows packages/ in the download URL.
SourceFramePreserved ==
    Succeeded("update_pkgbuild") /\ FromDeclared /\ decl.source # "none"
        => SourceAssignment(Val(pkgbuild)) =
              SourceHead(decl.source) \o SdistPath(args.version) \o SourceTail(decl.source)

\* C10: once the Updater has succeeded with target version V on a descriptor the
\* Checker could read a version from, the Checker reads V, and against an index
\* whose latest version is V it exits 0 reporting needs_update=false.
UpdateConverges ==
    /\ script = "check_version"
    /\ pc # "check_current"
    /\ ~IsNone(last_update)
    /\ ~IsNone(get_current_version(Some(Val(last_update).before)))
    => /\ current_version = Some(Val(last_update).version)
       /\ Exited("check_version") /\ latest_version = Some(Val(last_update).version)
            => exit_code = 0
               /\ Emitted(Val(last_update).version, Val(last_update).version, "false")

\* C10 witness: after an update of a descriptor whose version line carries a comment,
\* the Checker has exited against an index whose latest version is the target
CheckedAfterUpdate ==
    /\ Exited("check_version")
    /\ ~IsNone(last_update)
    /\ decl.ver = "comment"
    /\ latest_version = Some(Val(last_update).version)

=============================================================================
